---- MODULE Spec2Model ----
(***************************************************************************)
(* ChallengeSubmissionPage.tsx: the challenge submission screen.           *)
(*                                                                         *)
(* Strings of the program are sequences of one-character strings, so that  *)
(* toLowerCase, includes and trim are computed character by character.     *)
(* React state (useState) is held in text, selectedImage, isSubmitting;    *)
(* the handlers and the disabled prop read the snapshot of the last        *)
(* render (rendered), which Render brings up to date.                      *)
(***************************************************************************)
EXTENDS Integers, Sequences, FiniteSets, TLC

VARIABLES
    challenge,          \* props.challenge: [id, title, image]
    participationType,  \* props.participationType
    lifecycle,          \* "new" | "mounted" | "crashed" | "unmounted"
    theme,              \* const theme = getChallengeTheme(challenge.title)
    text,               \* useState('')
    selectedImage,      \* useState<string | null>(null)
    isSubmitting,       \* useState(false)
    rendered,           \* the state values the last render closed over
    runs,               \* records of the handleSubmit invocations suspended at the await
    picker,             \* the await at which pickImage / takePhoto is suspended
    now,                \* the wall clock, in milliseconds
    out,                \* collaborator calls made by the last step
    delivered           \* the onSubmit call made by the last step: its argument, and whether it threw

vars == <<challenge, participationType, lifecycle, theme, text, selectedImage,
          isSubmitting, rendered, runs, picker, now, out, delivered>>

----------------------------------------------------------------------------
(* Bounds *)

\* Handlers of handleSubmit suspended at the same time.
MaxRuns == 2
\* Last millisecond of the modelled wall clock.
MaxClock == 2
\* Vocabulary fragments concatenated into a challenge title.
MaxWords == 2

----------------------------------------------------------------------------
(* Strings *)

LowerAlphabet ==
    <<"a","b","c","d","e","f","g","h","i","j","k","l","m",
      "n","o","p","q","r","s","t","u","v","w","x","y","z">>

UpperAlphabet ==
    <<"A","B","C","D","E","F","G","H","I","J","K","L","M",
      "N","O","P","Q","R","S","T","U","V","W","X","Y","Z">>

\* String.prototype.toLowerCase on one character.
ToLowerChar(c) ==
    IF \E n \in DOMAIN UpperAlphabet : UpperAlphabet[n] = c
    THEN LowerAlphabet[CHOOSE n \in DOMAIN UpperAlphabet : UpperAlphabet[n] = c]
    ELSE c

\* String.prototype.toLowerCase
toLowerCase(s) == [i \in 1..Len(s) |-> ToLowerChar(s[i])]

\* String.prototype.includes
includes(s, k) ==
    \E i \in 0..(Len(s) - Len(k)) : SubSeq(s, i + 1, i + Len(k)) = k

\* White space removed by String.prototype.trim.
IsWhiteSpace(c) == c \in {" ", "\n", "\t"}

RECURSIVE trimStart(_)
trimStart(s) ==
    IF s # <<>> /\ IsWhiteSpace(Head(s)) THEN trimStart(Tail(s)) ELSE s

RECURSIVE trimEnd(_)
trimEnd(s) ==
    IF s # <<>> /\ IsWhiteSpace(s[Len(s)])
    THEN trimEnd(SubSeq(s, 1, Len(s) - 1))
    ELSE s

\* String.prototype.trim
trim(s) == trimEnd(trimStart(s))

Digits == <<"0","1","2","3","4","5","6","7","8","9">>

\* Number.prototype.toString of a non-negative integer (decimal digits).
RECURSIVE toString(_)
toString(n) ==
    IF n < 10 THEN <<Digits[n + 1]>>
    ELSE toString(n \div 10) \o <<Digits[(n % 10) + 1]>>

----------------------------------------------------------------------------
(* getChallengeTheme *)

KwPeace      == <<"p","e","a","c","e">>
KwMeditation == <<"m","e","d","i","t","a","t","i","o","n">>
KwMindful    == <<"m","i","n","d","f","u","l">>
KwAdventure  == <<"a","d","v","e","n","t","u","r","e">>
KwExplore    == <<"e","x","p","l","o","r","e">>
KwJourney    == <<"j","o","u","r","n","e","y">>
KwGratitude  == <<"g","r","a","t","i","t","u","d","e">>
KwThankful   == <<"t","h","a","n","k","f","u","l">>
KwAppreciate == <<"a","p","p","r","e","c","i","a","t","e">>
KwCreative   == <<"c","r","e","a","t","i","v","e">>
KwArt        == <<"a","r","t">>
KwCreate     == <<"c","r","e","a","t","e">>
KwFitness    == <<"f","i","t","n","e","s","s">>
KwWorkout    == <<"w","o","r","k","o","u","t">>
KwHealth     == <<"h","e","a","l","t","h">>

\* The copy bundles, named by their submitTitle.
PeaceTheme     == [kind |-> "peace",     submitTitle |-> "Share Your Peaceful Moment"]
AdventureTheme == [kind |-> "adventure", submitTitle |-> "Share Your Adventure"]
GratitudeTheme == [kind |-> "gratitude", submitTitle |-> "Share What You're Grateful For"]
CreativeTheme  == [kind |-> "creative",  submitTitle |-> "Share Your Creative Expression"]
FitnessTheme   == [kind |-> "fitness",   submitTitle |-> "Share Your Wellness Journey"]
GenericTheme   == [kind |-> "generic",   submitTitle |-> "Share Your Experience"]
\* challengeTitle.toLowerCase() on null: "TypeError: Cannot read properties of null".
TypeError      == [kind |-> "TypeError", submitTitle |-> ""]
\* Before the component function has run.
NoTheme        == [kind |-> "none",      submitTitle |-> ""]

\* A title is [isNull, chars]: null, or the string chars.
NullTitle == [isNull |-> TRUE, chars |-> <<>>]
Str(s) == [isNull |-> FALSE, chars |-> s]

\* Mutant: the adventure branch is tested before the peace branch.
getChallengeTheme_AdventureFirst(challengeTitle) ==
    IF challengeTitle.isNull THEN TypeError
    ELSE LET title == toLowerCase(challengeTitle.chars) IN
         IF includes(title, KwAdventure) \/ includes(title, KwExplore)
               \/ includes(title, KwJourney)
         THEN AdventureTheme
         ELSE IF includes(title, KwPeace) \/ includes(title, KwMeditation)
               \/ includes(title, KwMindful)
         THEN PeaceTheme
         ELSE IF includes(title, KwGratitude) \/ includes(title, KwThankful)
               \/ includes(title, KwAppreciate)
         THEN GratitudeTheme
         ELSE IF includes(title, KwCreative) \/ includes(title, KwArt)
               \/ includes(title, KwCreate)
         THEN CreativeTheme
         ELSE IF includes(title, KwFitness) \/ includes(title, KwWorkout)
               \/ includes(title, KwHealth)
         THEN FitnessTheme
         ELSE GenericTheme

getChallengeTheme(challengeTitle) ==
    IF challengeTitle.isNull THEN TypeError
    ELSE LET title == toLowerCase(challengeTitle.chars) IN
         IF includes(title, KwPeace) \/ includes(title, KwMeditation)
               \/ includes(title, KwMindful)
         THEN PeaceTheme
         ELSE IF includes(title, KwAdventure) \/ includes(title, KwExplore)
               \/ includes(title, KwJourney)
         THEN AdventureTheme
         ELSE IF includes(title, KwGratitude) \/ includes(title, KwThankful)
               \/ includes(title, KwAppreciate)
         THEN GratitudeTheme
         ELSE IF includes(title, KwCreative) \/ includes(title, KwArt)
               \/ includes(title, KwCreate)
         THEN CreativeTheme
         ELSE IF includes(title, KwFitness) \/ includes(title, KwWorkout)
               \/ includes(title, KwHealth)
         THEN FitnessTheme
         ELSE GenericTheme

----------------------------------------------------------------------------
(* Inputs *)

\* Fragments from which challenge titles are built.
Words ==
    { <<"P","e","a","c","e">>,
      <<"M","I","N","D","F","U","L">>,
      <<"a","d","v","e","n","t","u","r","e">>,
      <<"G","r","a","t","i","t","u","d","e">>,
      <<"A","R","T">>,
      <<"F","i","t","n","e","s","s">>,
      <<"h","e">>,
      <<"a","l","t","h">>,
      <<" ">>,
      <<"x">> }

RECURSIVE Concats(_)
Concats(n) ==
    IF n = 0 THEN { <<>> }
    ELSE LET prev == Concats(n - 1)
         IN  prev \cup { p \o w : p \in prev, w \in Words }

\* Props given to the theme resolver: every title of at most MaxWords
\* fragments, and a null title.
ThemeProps ==
    { [challenge |-> [id |-> 1, title |-> t, image |-> "icon-1"],
       participationType |-> "individual"] :
        t \in { Str(s) : s \in Concats(MaxWords) } \cup { NullTitle } }

\* Props given to the screen.
ScreenProps ==
    { [challenge |-> [id |-> 1, title |-> Str(<<"P","e","a","c","e">>),
                      image |-> "icon-1"],
       participationType |-> "individual"],
      [challenge |-> [id |-> 2, title |-> Str(<<"x">>), image |-> "icon-2"],
       participationType |-> "team"] }

\* Texts the user can bring the text field to.
Drafts ==
    { <<>>, <<" ">>, <<" ","a"," ">> }

\* selectedImage: null, or the uri of a picked asset.
NullImage == "null"
Undefined == "undefined"
Uris      == { "file:///photo-1.jpg" }

\* JavaScript falsiness of a string | null value.
Falsy(v) == v \in { NullImage, "" }

----------------------------------------------------------------------------
(* The screen *)

\* No pickImage or takePhoto invocation is suspended.
IdlePicker == "idle"

\* useState(''), useState(null), useState(false)
InitialState ==
    [text |-> <<>>, selectedImage |-> NullImage, isSubmitting |-> FALSE]

\* The screen takes presses and text changes: it is mounted and not covered
\* by the image library or the camera, which launch full screen.
Interactive == lifecycle = "mounted" /\ picker # "launch"

CurrentState ==
    [text |-> text, selectedImage |-> selectedImage, isSubmitting |-> isSubmitting]

InitScreen(props) ==
    /\ \E p \in props :
         /\ challenge = p.challenge
         /\ participationType = p.participationType
    /\ lifecycle = "new"
    /\ theme = NoTheme
    /\ text = <<>>
    /\ selectedImage = NullImage
    /\ isSubmitting = FALSE
    /\ rendered = InitialState
    /\ runs = <<>>
    /\ picker = IdlePicker
    /\ now = 0
    /\ out = <<>>
    /\ delivered = <<>>

Init == InitScreen(ScreenProps)

InitTheme == InitScreen(ThemeProps)

\* The first call of the component function: a throw of getChallengeTheme
\* leaves the screen unrendered.
Mount ==
    /\ lifecycle = "new"
    /\ theme' = getChallengeTheme(challenge.title)
    /\ lifecycle' = IF theme' = TypeError THEN "crashed" ELSE "mounted"
    /\ rendered' = CurrentState
    /\ out' = <<>>
    /\ delivered' = <<>>
    /\ UNCHANGED <<challenge, participationType, text, selectedImage, isSubmitting,
                   runs, picker, now>>

\* A re-render after state updates: the handlers and props of the new render
\* close over the current state.
Render ==
    /\ lifecycle = "mounted"
    /\ rendered # CurrentState
    /\ theme' = getChallengeTheme(challenge.title)
    /\ rendered' = CurrentState
    /\ out' = <<>>
    /\ delivered' = <<>>
    /\ UNCHANGED <<challenge, participationType, lifecycle, text, selectedImage,
                   isSubmitting, runs, picker, now>>

\* TextInput onChangeText={setText}
setText(t) ==
    /\ Interactive
    /\ t # text
    /\ text' = t
    /\ out' = <<>>
    /\ delivered' = <<>>
    /\ UNCHANGED <<challenge, participationType, lifecycle, theme, selectedImage,
                   isSubmitting, rendered, runs, picker, now>>

\* The remove button of the image preview, rendered when selectedImage is truthy.
RemoveImage ==
    /\ Interactive
    /\ ~Falsy(rendered.selectedImage)
    /\ selectedImage' = NullImage
    /\ out' = <<>>
    /\ delivered' = <<>>
    /\ UNCHANGED <<challenge, participationType, lifecycle, theme, text,
                   isSubmitting, rendered, runs, picker, now>>

\* pickImage / takePhoto up to the first await (the permission request).
PickerStart(handler) ==
    /\ Interactive
    /\ picker = IdlePicker
    /\ handler \in { "pickImage", "takePhoto" }
    /\ picker' = "permission"
    /\ out' = <<>>
    /\ delivered' = <<>>
    /\ UNCHANGED <<challenge, participationType, lifecycle, theme, text,
                   selectedImage, isSubmitting, rendered, runs, now>>

pickImage == PickerStart("pickImage")

takePhoto == PickerStart("takePhoto")

\* The permission request resolves: denied alerts and returns, granted
\* launches the library or the camera and awaits it.
PermissionResult ==
    /\ picker = "permission"
    /\ \E granted \in BOOLEAN :
         IF granted = FALSE
         THEN /\ out' = <<"Alert:Permission needed">>
              /\ picker' = IdlePicker
         ELSE /\ out' = <<>>
              /\ picker' = "launch"
    /\ delivered' = <<>>
    /\ UNCHANGED <<challenge, participationType, lifecycle, theme, text,
                   selectedImage, isSubmitting, rendered, runs, now>>

\* The library or camera resolves: canceled, or with an asset whose uri is set.
\* A state update of an unmounted component is dropped.
PickerResult ==
    /\ picker = "launch"
    /\ \E canceled \in BOOLEAN, uri \in Uris :
         selectedImage' = IF ~canceled /\ lifecycle = "mounted"
                          THEN uri ELSE selectedImage
    /\ picker' = IdlePicker
    /\ out' = <<>>
    /\ delivered' = <<>>
    /\ UNCHANGED <<challenge, participationType, lifecycle, theme, text,
                   isSubmitting, rendered, runs, now>>

----------------------------------------------------------------------------
(* handleSubmit *)

\* Mutant: the text is tested without trim.
IsEmptyDraft_NoTrim(t, image) == t = <<>> /\ Falsy(image)

\* if (!text.trim() && !selectedImage)
IsEmptyDraft(t, image) == trim(t) = <<>> /\ Falsy(image)

\* Mutant: the text is copied without trim.
BuildSubmission_NoTrim(t, image) ==
    [ id                |-> toString(now),
      challengeId       |-> challenge.id,
      challengeTitle    |-> challenge.title,
      challengeIcon     |-> challenge.image,
      text              |-> t,
      image             |-> IF Falsy(image) THEN Undefined ELSE image,
      timestamp         |-> now,
      author            |-> [name |-> "You",
                             avatar |-> "https://images.unsplash.com/photo-1472099645785-5658abf4ff4e?w=100&h=100&fit=crop&crop=face",
                             username |-> "@you"],
      likes             |-> 0,
      comments          |-> 0,
      shares            |-> 0,
      participationType |-> participationType ]

\* const submission: ChallengeSubmission = { ... }
BuildSubmission(t, image) ==
    [ id                |-> toString(now),
      challengeId       |-> challenge.id,
      challengeTitle    |-> challenge.title,
      challengeIcon     |-> challenge.image,
      text              |-> trim(t),
      image             |-> IF Falsy(image) THEN Undefined ELSE image,
      timestamp         |-> now,
      author            |-> [name |-> "You",
                             avatar |-> "https://images.unsplash.com/photo-1472099645785-5658abf4ff4e?w=100&h=100&fit=crop&crop=face",
                             username |-> "@you"],
      likes             |-> 0,
      comments          |-> 0,
      shares            |-> 0,
      participationType |-> participationType ]

\* A press of the submit button (disabled={isSubmitting} of the last render):
\* handleSubmit up to its await. text and selectedImage are those the
\* handler closed over. A run that passes validation is suspended with its
\* record.
handleSubmit ==
    /\ Interactive
    /\ ~rendered.isSubmitting
    /\ IF IsEmptyDraft(rendered.text, rendered.selectedImage)
       THEN /\ out' = <<"Alert:Empty post">>
            /\ UNCHANGED <<isSubmitting, runs>>
       ELSE /\ Len(runs) < MaxRuns
            /\ now < MaxClock
            /\ isSubmitting' = TRUE
            /\ runs' = Append(runs,
                  BuildSubmission(rendered.text, rendered.selectedImage))
            /\ out' = <<>>
    /\ delivered' = <<>>
    /\ UNCHANGED <<challenge, participationType, lifecycle, theme, text,
                   selectedImage, rendered, picker, now>>

\* What the dismissal collaborator does to the screen: the parent unmounts it.
AfterOnClose == "unmounted"

\* Unmounting destroys the component's state: the variables of an unmounted
\* screen are kept at their initial values.
Kept(lc, v, initial) == IF lc = "mounted" THEN v ELSE initial

\* Mutant: the success path does not call onClose.
SuccessPath_NoClose == <<"onSubmit", "Alert:Success!">>

\* onSubmit(submission); Alert.alert('Success!', ...); onClose();
SuccessPath == <<"onSubmit", "Alert:Success!", "onClose">>

\* onSubmit(submission) throws; catch: Alert.alert('Error', ...)
FailurePath == <<"onSubmit", "Alert:Error">>

\* Mutant: no finally block.
Finally_Missing(submitting) == submitting

\* finally { setIsSubmitting(false) }
Finally(submitting) == FALSE

\* The 1000 ms timer of the oldest suspended run fires (timers of equal delay
\* fire in the order they were set) and handleSubmit runs to its end: onSubmit
\* returns or throws.
Resume ==
    /\ runs # <<>>
    /\ now > Head(runs).timestamp
    /\ \E threw \in BOOLEAN :
         /\ delivered' = <<[submission |-> Head(runs), threw |-> threw]>>
         /\ out' = IF threw THEN FailurePath ELSE SuccessPath
    /\ lifecycle' = IF \E i \in DOMAIN out' : out'[i] = "onClose"
                    THEN AfterOnClose ELSE lifecycle
    /\ isSubmitting' = Kept(lifecycle', Finally(isSubmitting), FALSE)
    /\ text' = Kept(lifecycle', text, <<>>)
    /\ selectedImage' = Kept(lifecycle', selectedImage, NullImage)
    /\ rendered' = Kept(lifecycle', rendered, InitialState)
    /\ runs' = Tail(runs)
    /\ UNCHANGED <<challenge, participationType, theme, picker, now>>

\* Mutant: closing the screen drops the suspended runs.
PressClose_Cancels ==
    /\ Interactive
    /\ out' = <<"onClose">>
    /\ delivered' = <<>>
    /\ lifecycle' = AfterOnClose
    /\ isSubmitting' = Kept(lifecycle', isSubmitting, FALSE)
    /\ text' = Kept(lifecycle', text, <<>>)
    /\ selectedImage' = Kept(lifecycle', selectedImage, NullImage)
    /\ rendered' = Kept(lifecycle', rendered, InitialState)
    /\ runs' = <<>>
    /\ UNCHANGED <<challenge, participationType, theme, picker, now>>

\* The close button: onPress={onClose}
PressClose ==
    /\ Interactive
    /\ out' = <<"onClose">>
    /\ lifecycle' = AfterOnClose
    /\ isSubmitting' = Kept(lifecycle', isSubmitting, FALSE)
    /\ text' = Kept(lifecycle', text, <<>>)
    /\ selectedImage' = Kept(lifecycle', selectedImage, NullImage)
    /\ rendered' = Kept(lifecycle', rendered, InitialState)
    /\ delivered' = <<>>
    /\ UNCHANGED <<challenge, participationType, theme, runs, picker, now>>

\* A millisecond passes. Time is read by handleSubmit and by its timer
\* only, so it is counted while a suspended run waits for its timer.
Tick ==
    /\ now < MaxClock
    /\ runs # <<>>
    /\ now <= Head(runs).timestamp
    /\ now' = now + 1
    /\ out' = <<>>
    /\ delivered' = <<>>
    /\ UNCHANGED <<challenge, participationType, lifecycle, theme, text,
                   selectedImage, isSubmitting, rendered, runs, picker>>

Next ==
    \/ Mount
    \/ Render
    \/ \E t \in Drafts : setText(t)
    \/ RemoveImage
    \/ pickImage
    \/ takePhoto
    \/ PermissionResult
    \/ PickerResult
    \/ handleSubmit
    \/ Resume
    \/ PressClose
    \/ Tick

Spec == Init /\ [][Next]_vars

\* The timer of a suspended run fires once its delay has elapsed, and time passes.
LiveSpec == Init /\ [][Next]_vars /\ WF_vars(Tick) /\ WF_vars(Resume)

\* The theme resolver alone, on every title.
NextTheme == Mount

SpecTheme == InitTheme /\ [][NextTheme]_vars
----------------------------------------------------------------------------
(* Properties *)

Range(f) == { f[i] : i \in DOMAIN f }

\* A step in which handleSubmit, resumed, hands a record to onSubmit.
Delivers == delivered' # <<>>

\* The draft a submit press reads has no image and no text but white space.
NothingToShare ==
    /\ rendered.selectedImage = NullImage
    /\ \A i \in DOMAIN rendered.text : IsWhiteSpace(rendered.text[i])

\* t is s without its leading and trailing white space.
IsTrimOf(t, s) ==
    \E i, j \in 0..Len(s) :
        /\ i + j <= Len(s)
        /\ t = SubSeq(s, i + 1, Len(s) - j)
        /\ \A k \in 1..i : IsWhiteSpace(s[k])
        /\ \A k \in (Len(s) - j + 1)..Len(s) : IsWhiteSpace(s[k])
        /\ t # <<>> => ~IsWhiteSpace(t[1]) /\ ~IsWhiteSpace(t[Len(t)])

\* C1: at most one submission is in flight at any time: no second run of
\* handleSubmit passes validation while an earlier one is suspended.
C1_SingleInFlight == Len(runs) <= 1

\* C2: a submit press on a draft with no image and only white space for text
\* shows the validation message and does nothing else: the screen stays Idle,
\* the draft is unchanged, no record (id, timestamp) is built, neither onSubmit
\* nor onClose is called; and no record with empty text and no image is ever
\* built or delivered.
C2_EmptyDraftRejected ==
    /\ [][ (NothingToShare /\ handleSubmit) =>
             /\ out' = <<"Alert:Empty post">>
             /\ ~isSubmitting /\ ~isSubmitting'
             /\ text' = text /\ selectedImage' = selectedImage
             /\ runs' = runs /\ now' = now
             /\ delivered' = <<>>
             /\ lifecycle' = lifecycle ]_vars
    /\ [](\A r \in Range(runs) \cup { d.submission : d \in Range(delivered) } :
             ~(r.text = <<>> /\ r.image = Undefined))

\* C2 witness: a press on a white-space-only draft was just rejected.
C2_Witness ==
    /\ out = <<"Alert:Empty post">>
    /\ rendered.text = <<" ">>
    /\ rendered.selectedImage = NullImage
    /\ ~isSubmitting
    /\ runs = <<>>

\* C3: when onSubmit throws, the failure notification follows and nothing else
\* (no success notification, no onClose), isSubmitting is false again, the draft
\* text and image are left as they were, the screen stays mounted if it was;
\* with no run suspended a mounted screen is Idle, so a later press can submit.
C3_FailureReturnsToIdle ==
    /\ [][ (Delivers /\ delivered'[1].threw) =>
             /\ out' = <<"onSubmit", "Alert:Error">>
             /\ ~isSubmitting'
             /\ text' = text /\ selectedImage' = selectedImage
             /\ lifecycle' = lifecycle ]_vars
    /\ [](lifecycle = "mounted" /\ runs = <<>> => ~isSubmitting)

\* C3 witness: after a failed submission a later press has started a new one
\* (time only passes while a run is suspended, and a successful run unmounts).
C3_Witness ==
    /\ lifecycle = "mounted"
    /\ isSubmitting
    /\ Len(runs) = 1
    /\ runs[1].timestamp > 0

KeywordGroups ==
    << { KwPeace, KwMeditation, KwMindful },
       { KwAdventure, KwExplore, KwJourney },
       { KwGratitude, KwThankful, KwAppreciate },
       { KwCreative, KwArt, KwCreate },
       { KwFitness, KwWorkout, KwHealth } >>

GroupThemes ==
    << PeaceTheme, AdventureTheme, GratitudeTheme, CreativeTheme, FitnessTheme >>

\* Letters a and b are equal up to case.
SameLetter(a, b) ==
    \/ a = b
    \/ \E n \in DOMAIN LowerAlphabet :
          { a, b } = { LowerAlphabet[n], UpperAlphabet[n] }

\* Keyword k occurs in title t at some position, case-insensitively.
Occurs(k, t) ==
    \E i \in 1..(Len(t) - Len(k) + 1) :
        \A j \in 1..Len(k) : SameLetter(t[i + j - 1], k[j])

GroupOccurs(g, t) == \E k \in KeywordGroups[g] : Occurs(k, t)

\* C5: the theme of a title is the theme of the first group, in priority order,
\* one of whose keywords occurs in it case-insensitively at any position, and
\* the generic theme when no group has one.
C5_FirstGroupWins ==
    (lifecycle # "new" /\ ~challenge.title.isNull) =>
        LET t == challenge.title.chars
            matching == { g \in DOMAIN KeywordGroups : GroupOccurs(g, t) }
        IN  IF matching = {}
            THEN theme = GenericTheme
            ELSE theme = GroupThemes[CHOOSE g \in matching :
                                        \A h \in matching : g <= h]

\* C5 witness: "adventurePeace" has the adventure keyword first and the peace
\* keyword later, and resolves to the peace theme.
C5_Witness ==
    /\ lifecycle = "mounted"
    /\ challenge.title =
         Str(<<"a","d","v","e","n","t","u","r","e","P","e","a","c","e">>)
    /\ theme = PeaceTheme

\* C6: a record built at a submit press has zero likes, comments and shares, the
\* screen's participation mode, the challenge's id, title and icon, the trimmed
\* text and the image (or none) of the draft the press read; a suspended record
\* never changes, whatever is edited meanwhile, and is the one handed to onSubmit.
C6_RecordBuiltAtPress ==
    /\ [][ Len(runs') > Len(runs) =>
             LET r == runs'[Len(runs')] IN
             /\ runs' = Append(runs, r)
             /\ r.likes = 0 /\ r.comments = 0 /\ r.shares = 0
             /\ r.participationType = participationType
             /\ r.challengeId = challenge.id
             /\ r.challengeTitle = challenge.title
             /\ r.challengeIcon = challenge.image
             /\ IsTrimOf(r.text, rendered.text)
             /\ r.image = IF rendered.selectedImage = NullImage
                          THEN Undefined ELSE rendered.selectedImage ]_vars
    /\ [][ Len(runs') <= Len(runs) =>
             \/ runs' = runs /\ ~Delivers
             \/ /\ runs # <<>>
                /\ runs' = Tail(runs)
                /\ Delivers
                /\ delivered'[1].submission = Head(runs) ]_vars

\* C6 witness: the record of the draft " a " with an image is handed to onSubmit
\* after the text was cleared and the image removed.
C6_Witness ==
    /\ delivered # <<>>
    /\ delivered[1].submission.text = <<"a">>
    /\ delivered[1].submission.image \in Uris
    /\ delivered[1].submission.participationType = "team"
    /\ lifecycle = "mounted"
    /\ text = <<>>
    /\ selectedImage = NullImage

\* C7: while a submission is in flight the draft text and image do not change.
C7_DraftLocked ==
    [][ (runs # <<>> /\ lifecycle' = "mounted") =>
          (text' = text /\ selectedImage' = selectedImage) ]_vars

\* C8: two records handed to onSubmit carry different ids.
C8_UniqueIds ==
    [][ (delivered # <<>> /\ Delivers) =>
          delivered'[1].submission.id # delivered[1].submission.id ]_vars

\* C9: no step removes a suspended run except the one that hands its record to
\* onSubmit, and every suspended run is eventually resumed: there is always a
\* later moment with no run suspended.
C9_NoCancellation ==
    /\ [][ \/ \A i \in DOMAIN runs : i \in DOMAIN runs' /\ runs'[i] = runs[i]
           \/ /\ runs # <<>>
              /\ runs' = Tail(runs)
              /\ Delivers
              /\ delivered'[1].submission = Head(runs)
              /\ out'[1] = "onSubmit" ]_vars
    /\ []<>(runs = <<>>)

\* C9 witness: onSubmit is invoked for a run after the screen was closed.
C9_Witness ==
    /\ lifecycle = "unmounted"
    /\ delivered # <<>>
    /\ delivered[1].threw

\* C10: for an empty title and for a null title the resolver does not throw
\* and returns the generic theme.
C10_Total ==
    (lifecycle # "new" /\ (challenge.title.isNull \/ challenge.title.chars = <<>>)) =>
        (theme = GenericTheme /\ lifecycle = "mounted")
====
